---- MODULE Spec2Model ----
(***************************************************************************)
(* Model of the task poller of dokploy-task-api: the POST handler of      *)
(* src/app/api/udio-api/route.ts and of its near-duplicate part_000.      *)
(* One invocation is modelled; its states are the handler's suspension    *)
(* points (the awaits on the upstream fetch, the inter-poll sleep, the     *)
(* callback fetch and the callback backoff sleep).  Each action is the     *)
(* synchronous code that runs from the completion of one await up to the   *)
(* next await or to the returned response.                                 *)
(*                                                                         *)
(* Time is in milliseconds, as read by Date.now().  Of a song record the   *)
(* fields id, song_path, error_code and error_detail are modelled; the     *)
(* remaining fields are copied into the callback entry without influencing *)
(* control flow (created_at is a timestamp string, as the data model       *)
(* states, so toISOString does not throw).                                 *)
(*                                                                         *)
(* checkI is the loop index i of checkSongs and cbI that of the callback   *)
(* loop; checkI is 0 outside a call of checkSongs.  callbacks, slept,      *)
(* polls, pollStart, failures, built and responses record what the         *)
(* invocation has done: the callback POSTs sent, the backoff delays slept, *)
(* the poll cycles begun, the time the latest cycle began, the failed      *)
(* upstream attempts of the cycle under way, the notifications built and   *)
(* the responses returned.                                                 *)
(***************************************************************************)
EXTENDS Integers, Sequences, FiniteSets, TLC

VARIABLES variant, pc, now, startTime, allFinished, allFailed, data, checkI,
          cbI, callbackData, delay, response, caught, callbacks, slept,
          polls, pollStart, failures, built, responses

vars == <<variant, pc, now, startTime, allFinished, allFailed, data, checkI,
          cbI, callbackData, delay, response, caught, callbacks, slept,
          polls, pollStart, failures, built, responses>>

(* ---------------------------- bounds ----------------------------------- *)

\* largest number of song records in one upstream snapshot
MaxSongs == 2

(* ------------------------ program constants ---------------------------- *)

MAX_RETRY_TIME == 10 * 60 * 1000

RETRY_INTERVAL == 10000

\* default of checkSongs' retryCount parameter
checkSongsRetryCount == 5

\* default of callbackWithRetry's maxRetries parameter (route.ts)
maxRetries == 3

\* default of sendCallback's retryCount parameter (part_000)
sendCallbackRetryCount == 3

\* the two handlers
Variants == {"route", "part_000"}

(* ----------------------------- values ---------------------------------- *)

\* JavaScript null of a `string | null` field
NULL == "<null>"

\* a variable that has been declared and not assigned
Undefined == [undefined |-> TRUE]

\* the request body of the invocation
TrackIdNames == <<"a", "b", "c", "d">>

body == [taskId |-> "task-1",
         trackIds |-> SubSeq(TrackIdNames, 1, MaxSongs),
         callbackUrl |-> "https://caller.example/hook"]

\* status of one song as the upstream reports it: the combinations of
\* null / empty / set values of the three fields the handler tests
SongStates ==
  { [song_path |-> NULL, error_code |-> NULL, error_detail |-> NULL],
    [song_path |-> "",   error_code |-> "",   error_detail |-> NULL],
    [song_path |-> "p",  error_code |-> NULL, error_detail |-> NULL],
    [song_path |-> "p",  error_code |-> "",   error_detail |-> ""],
    [song_path |-> NULL, error_code |-> "E1", error_detail |-> "D1"],
    [song_path |-> "",   error_code |-> "E2", error_detail |-> NULL] }

\* Song records of a snapshot of n songs; the k-th carries the k-th track id
Song(k, s) == [id |-> TrackIdNames[k], song_path |-> s.song_path,
               error_code |-> s.error_code, error_detail |-> s.error_detail]

\* SongsResponse bodies the upstream can answer with: 0..MaxSongs records
Snapshots ==
  UNION { { [k \in 1..n |-> Song(k, f[k])] : f \in [1..n -> SongStates] }
          : n \in 0..MaxSongs }

\* time an answered upstream query takes: immediate, or the whole budget
FetchTimes == {0, MAX_RETRY_TIME}

\* time a failing upstream query takes
FailTimes == {0}

\* time a callback POST takes
CallbackTimes == {0}

\* how late a timer fires after its delay has passed
TimerLateness == {0}

\* Date.now() at the time the request arrives
ArrivalTimes == {25000}

(* --------------------------- pure helpers ------------------------------ *)

\* JavaScript truthiness of a `string | null` value
Falsy(s) == s = NULL \/ s = ""

\* a || b
OrElse(a, b) == IF Falsy(a) THEN b ELSE a

\* the predicate of data.songs.every at the head of the poll cycle
SongFinished(song) ==
  \/ (song.song_path # NULL /\ song.song_path # "")
  \/ (song.error_code # NULL /\ song.error_code # "")

\* AllFinished refusing the empty list
AllFinished_NonEmpty(songs) ==
  Len(songs) > 0 /\ \A k \in 1..Len(songs) : SongFinished(songs[k])

AllFinished(songs) == \A k \in 1..Len(songs) : SongFinished(songs[k])

\* AllFailed with some in place of every
AllFailed_Some(songs) == \E k \in 1..Len(songs) : songs[k].error_code # NULL

AllFailed(songs) == \A k \in 1..Len(songs) : songs[k].error_code # NULL

\* CallbackSong testing error_code against null, as allFailed does
CallbackSong_NonNull(song) ==
  [id |-> song.id,
   audio_url |-> OrElse(song.song_path, ""),
   model_name |-> "udio",
   status |-> IF song.error_code # NULL THEN "501" ELSE "200",
   error_message |-> song.error_detail]

\* one element of callbackSongs
CallbackSong(song) ==
  [id |-> song.id,
   audio_url |-> OrElse(song.song_path, ""),
   model_name |-> "udio",
   status |-> IF Falsy(song.error_code) THEN "200" ELSE "501",
   error_message |-> song.error_detail]

\* CallbackSongs listing the entries in reverse order
CallbackSongs_Reversed(songs) ==
  [k \in 1..Len(songs) |-> CallbackSong(songs[Len(songs) + 1 - k])]

CallbackSongs(songs) == [k \in 1..Len(songs) |-> CallbackSong(songs[k])]

\* evaluating data.songs[0].error_detail throws a TypeError on an empty list
CallbackDataThrows(songs, failed) == failed /\ Len(songs) = 0

\* CallbackData reading the error fields of the last song, not the first
CallbackData_LastSong(songs, failed) ==
  IF failed
  THEN [code |-> 501,
        msg |-> OrElse(songs[Len(songs)].error_detail, "All songs generation failed"),
        detail |-> OrElse(songs[Len(songs)].error_code, "All songs generation failed"),
        data |-> [callbackType |-> "complete", task_id |-> body.taskId,
                  data |-> CallbackSongs(songs)]]
  ELSE [code |-> 200,
        msg |-> "Generated successfully.",
        data |-> [callbackType |-> "complete", task_id |-> body.taskId,
                  data |-> CallbackSongs(songs)]]

\* the notification (callbackData); songs[1] is data.songs[0]
CallbackData(songs, failed) ==
  IF failed
  THEN [code |-> 501,
        msg |-> OrElse(songs[1].error_detail, "All songs generation failed"),
        detail |-> OrElse(songs[1].error_code, "All songs generation failed"),
        data |-> [callbackType |-> "complete", task_id |-> body.taskId,
                  data |-> CallbackSongs(songs)]]
  ELSE [code |-> 200,
        msg |-> "Generated successfully.",
        data |-> [callbackType |-> "complete", task_id |-> body.taskId,
                  data |-> CallbackSongs(songs)]]

\* WithinBudget comparing the clock itself, not the elapsed time
WithinBudget_NoStart(t, start) == t < MAX_RETRY_TIME

\* WithinBudget with <= in place of <
WithinBudget_Inclusive(t, start) == t - start <= MAX_RETRY_TIME

\* Date.now() - startTime < MAX_RETRY_TIME, with Date.now() = t
WithinBudget(t, start) == t - start < MAX_RETRY_TIME

\* CallbackAttempts with the loop bound off by one (i <= maxRetries)
CallbackAttempts_OffByOne(v) ==
  IF v = "route" THEN maxRetries + 1 ELSE sendCallbackRetryCount + 1

\* number of callback attempts of the variant
CallbackAttempts(v) == IF v = "route" THEN maxRetries ELSE sendCallbackRetryCount

\* number of upstream attempts of one poll cycle: part_000 loops retryCount
\* times, route.ts has no loop and ignores its retryCount parameter
CheckSongsAttempts(v) == IF v = "route" THEN 1 ELSE checkSongsRetryCount

\* BackoffDelay with the exponential backoff in both variants
BackoffDelay_Exponential(v, i) == (2 ^ i) * 10000

\* the delay slept after the failed callback attempt of index i
BackoffDelay(v, i) == IF v = "route" THEN (2 ^ i) * 10000 ELSE 2000

\* the outbound callback request of one attempt
CallbackRequest(v, cbdata) ==
  [url |-> body.callbackUrl, method |-> "POST",
   authorization |-> (v = "route"), body |-> cbdata, result |-> "pending"]

(* ----------------------------- responses ------------------------------- *)

NoResponse == [http |-> 0]

\* SuccessResponse with the message of the 200 notification in every case
SuccessResponse_Fixed(v, failed, callbackSuccess) ==
  IF v = "route"
  THEN [http |-> 200, status |-> "success", message |-> "Process completed",
        callbackSuccess |-> callbackSuccess]
  ELSE [http |-> 200, status |-> "success", message |-> "Process completed"]

SuccessResponse(v, failed, callbackSuccess) ==
  IF v = "route"
  THEN [http |-> 200, status |-> "success",
        message |-> IF failed THEN "All songs failed" ELSE "Process completed",
        callbackSuccess |-> callbackSuccess]
  ELSE [http |-> 200, status |-> "success",
        message |-> IF failed THEN "All songs failed" ELSE "Process completed"]

TimeoutResponse ==
  [http |-> 200, status |-> "timeout",
   message |-> "Processing timeout after 10 minutes"]

InternalError == [http |-> 500, error |-> "Internal server error"]

(* ------------------------------- Init ---------------------------------- *)

Init ==
  /\ variant \in Variants
  /\ pc = "start"
  /\ now \in ArrivalTimes
  /\ startTime = 0
  /\ allFinished = FALSE
  /\ allFailed = FALSE
  /\ data = Undefined
  /\ checkI = 0
  /\ cbI = 0
  /\ callbackData = Undefined
  /\ delay = 0
  /\ response = NoResponse
  /\ caught = "none"
  /\ callbacks = <<>>
  /\ slept = <<>>
  /\ polls = 0
  /\ pollStart = 0
  /\ failures = 0
  /\ built = 0
  /\ responses = 0

(* --------------------------- control fragments -------------------------- *)

\* return NextResponse.json(r)
Return(r) ==
  /\ pc' = "done"
  /\ response' = r
  /\ responses' = responses + 1

\* the catch block of POST
Catch(error) ==
  /\ caught' = error
  /\ Return(InternalError)

\* the head of the while loop, read at time t: another poll cycle begins
\* with a call of checkSongs, or the loop is left and timeout is returned.
\* snapshot is the value of data; a new cycle assigns data before reading
\* it, so the model forgets the old snapshot when the cycle begins
WhileLoop(fin, t, start, snapshot) ==
  IF ~fin /\ WithinBudget(t, start)
  THEN /\ pc' = "checkSongs"
       /\ checkI' = 0
       /\ polls' = polls + 1
       /\ pollStart' = t
       /\ failures' = 0
       /\ data' = Undefined
       /\ UNCHANGED <<response, responses>>
  ELSE /\ Return(TimeoutResponse)
       /\ checkI' = 0
       /\ data' = snapshot
       /\ failures' = 0
       /\ UNCHANGED <<polls, pollStart>>

\* the result of the callback attempt in flight
Settle(cbs, result) == [cbs EXCEPT ![Len(cbs)].result = result]

(* ------------------------------ actions -------------------------------- *)

\* POST is entered: the body is parsed, startTime is read, the loop begins
Start ==
  /\ pc = "start"
  /\ startTime' = now
  /\ allFinished' = FALSE
  /\ WhileLoop(FALSE, now, now, data)
  /\ UNCHANGED <<variant, now, allFailed, cbI, callbackData, delay,
                 caught, callbacks, slept, built>>

\* the upstream answers 2xx with a SongsResponse: the rest of the poll cycle
CheckSongsOk(d, snap) ==
  /\ pc = "checkSongs"
  /\ now' = now + d
  /\ allFinished' = AllFinished(snap)
  /\ IF AllFinished(snap)
     THEN /\ data' = [songs |-> snap]
          /\ allFailed' = AllFailed(snap)
          /\ IF CallbackDataThrows(snap, AllFailed(snap))
             THEN /\ Catch("TypeError")
                  /\ UNCHANGED <<callbackData, built, cbI, callbacks>>
             ELSE /\ callbackData' = CallbackData(snap, AllFailed(snap))
                  /\ built' = built + 1
                  /\ cbI' = 0
                  /\ callbacks' = Append(callbacks,
                         CallbackRequest(variant, CallbackData(snap, AllFailed(snap))))
                  /\ pc' = "callback"
                  /\ UNCHANGED <<response, responses, caught>>
          /\ checkI' = 0
          /\ failures' = 0
          /\ UNCHANGED <<polls, pollStart, delay>>
     ELSE /\ IF WithinBudget(now + d, startTime)
             THEN /\ pc' = "sleep"
                  /\ delay' = RETRY_INTERVAL
                  /\ checkI' = 0
                  /\ data' = [songs |-> snap]
                  /\ failures' = 0
                  /\ UNCHANGED <<response, responses, polls, pollStart>>
             ELSE /\ WhileLoop(FALSE, now + d, startTime, [songs |-> snap])
                  /\ UNCHANGED delay
          /\ UNCHANGED <<allFailed, callbackData, built, cbI, callbacks, caught>>
  /\ UNCHANGED <<variant, startTime, slept>>

\* CheckSongsFail swallowing the failure: the cycle counts as unfinished
CheckSongsFail_Swallow(d) ==
  /\ pc = "checkSongs"
  /\ now' = now + d
  /\ failures' = failures + 1
  /\ checkI' = 0
  /\ pc' = "sleep"
  /\ delay' = RETRY_INTERVAL
  /\ UNCHANGED <<variant, startTime, allFinished, allFailed, data, cbI,
                 callbackData, response, caught, callbacks, slept, polls, pollStart,
                 built, responses>>

\* CheckSongsFail without the retry loop in both variants
CheckSongsFail_NoRetry(d) ==
  /\ pc = "checkSongs"
  /\ now' = now + d
  /\ failures' = failures + 1
  /\ Catch("Unreachable code")
  /\ checkI' = 0
  /\ UNCHANGED <<variant, startTime, allFinished, allFailed, data, cbI,
                 callbackData, delay, callbacks, slept, polls, pollStart,
                 built>>

\* CheckSongsFail with the retry loop in both variants
CheckSongsFail_Retry(d) ==
  /\ pc = "checkSongs"
  /\ now' = now + d
  /\ failures' = failures + 1
  /\ IF checkI = checkSongsRetryCount - 1
     THEN /\ Catch("Failed to fetch songs after 5 attempts")
          /\ checkI' = 0
     ELSE /\ checkI' = checkI + 1
          /\ UNCHANGED <<pc, response, responses, caught>>
  /\ UNCHANGED <<variant, startTime, allFinished, allFailed, data, cbI,
                 callbackData, delay, callbacks, slept, polls, pollStart,
                 built>>

\* the upstream query fails (fetch rejects, or the response is not ok)
CheckSongsFail(d) ==
  /\ pc = "checkSongs"
  /\ now' = now + d
  /\ failures' = failures + 1
  /\ IF variant = "route"
     THEN /\ Catch("Unreachable code")
          /\ checkI' = 0
     ELSE IF checkI = checkSongsRetryCount - 1
          THEN /\ Catch("Failed to fetch songs after 5 attempts")
               /\ checkI' = 0
          ELSE /\ checkI' = checkI + 1
               /\ UNCHANGED <<pc, response, responses, caught>>
  /\ UNCHANGED <<variant, startTime, allFinished, allFailed, data, cbI,
                 callbackData, delay, callbacks, slept, polls, pollStart, built>>

\* the upstream answers 2xx with a body that is not JSON: the promise of
\* `return response.json()` rejects outside the try block of checkSongs
CheckSongsBadBody(d) ==
  /\ pc = "checkSongs"
  /\ now' = now + d
  /\ Catch("SyntaxError")
  /\ checkI' = 0
  /\ UNCHANGED <<variant, startTime, allFinished, allFailed, data, cbI,
                 callbackData, delay, callbacks, slept, polls, pollStart, failures, built>>

\* the inter-poll sleep ends and the loop condition is read again
PollSleepDone(late) ==
  /\ pc = "sleep"
  /\ now' = now + delay + late
  /\ WhileLoop(allFinished, now + delay + late, startTime, data)
  /\ UNCHANGED <<variant, startTime, allFinished, allFailed, cbI,
                 callbackData, delay, caught, callbacks, slept, built>>

\* CallbackOk without the return: the handler falls out of the loop and
\* answers a second time, with the timeout response
CallbackOk_NoReturn(d) ==
  /\ pc = "callback"
  /\ now' = now + d
  /\ callbacks' = Settle(callbacks, "ok")
  /\ pc' = "done"
  /\ response' = TimeoutResponse
  /\ responses' = responses + 2
  /\ UNCHANGED <<variant, startTime, allFinished, allFailed, data, checkI, cbI,
                 callbackData, delay, caught, slept, polls, pollStart, failures, built>>

\* the callback endpoint answers 2xx
CallbackOk(d) ==
  /\ pc = "callback"
  /\ now' = now + d
  /\ callbacks' = Settle(callbacks, "ok")
  /\ Return(SuccessResponse(variant, allFailed, TRUE))
  /\ UNCHANGED <<variant, startTime, allFinished, allFailed, data, checkI, cbI,
                 callbackData, delay, caught, slept, polls, pollStart, failures, built>>

\* CallbackFail rethrowing on exhaustion in both variants
CallbackFail_Throw(d) ==
  /\ pc = "callback"
  /\ now' = now + d
  /\ callbacks' = Settle(callbacks, "failed")
  /\ IF cbI = CallbackAttempts(variant) - 1
     THEN /\ Catch("Callback failed")
          /\ UNCHANGED delay
     ELSE /\ pc' = "backoff"
          /\ delay' = BackoffDelay(variant, cbI)
          /\ UNCHANGED <<response, responses, caught>>
  /\ UNCHANGED <<variant, startTime, allFinished, allFailed, data, checkI, cbI,
                 callbackData, slept, polls, pollStart, failures, built>>

\* the callback attempt fails (fetch rejects, or the response is not ok)
CallbackFail(d) ==
  /\ pc = "callback"
  /\ now' = now + d
  /\ callbacks' = Settle(callbacks, "failed")
  /\ IF cbI = CallbackAttempts(variant) - 1
     THEN /\ IF variant = "route"
             THEN /\ Return(SuccessResponse(variant, allFailed, FALSE))
                  /\ UNCHANGED caught
             ELSE Catch("Callback failed")
          /\ UNCHANGED delay
     ELSE /\ pc' = "backoff"
          /\ delay' = BackoffDelay(variant, cbI)
          /\ UNCHANGED <<response, responses, caught>>
  /\ UNCHANGED <<variant, startTime, allFinished, allFailed, data, checkI, cbI,
                 callbackData, slept, polls, pollStart, failures, built>>

\* the sleep after a failed callback attempt ends: the next attempt is sent
BackoffDone(late) ==
  /\ pc = "backoff"
  /\ now' = now + delay + late
  /\ slept' = Append(slept, delay)
  /\ cbI' = cbI + 1
  /\ cbI + 1 < CallbackAttempts(variant)
  /\ callbacks' = Append(callbacks, CallbackRequest(variant, callbackData))
  /\ pc' = "callback"
  /\ UNCHANGED <<variant, startTime, allFinished, allFailed, data, checkI,
                 callbackData, delay, response, caught, polls, pollStart, failures, built,
                 responses>>

Next ==
  \/ Start
  \/ \E d \in FetchTimes, snap \in Snapshots : CheckSongsOk(d, snap)
  \/ \E d \in FailTimes : CheckSongsFail(d)
  \/ \E d \in FailTimes : CheckSongsBadBody(d)
  \/ \E late \in TimerLateness : PollSleepDone(late)
  \/ \E d \in CallbackTimes : CallbackOk(d)
  \/ \E d \in CallbackTimes : CallbackFail(d)
  \/ \E late \in TimerLateness : BackoffDone(late)

Spec == Init /\ [][Next]_vars

\* every outbound call completes and every timer fires
FairSpec == Spec /\ WF_vars(Next)


(* ------------------------------ properties ----------------------------- *)

\* a string | null value that is neither null nor empty
Present(s) == s # NULL /\ s # ""

\* a song is terminal: it has a song path or an error code
SongDone(song) == Present(song.song_path) \/ Present(song.error_code)

\* time since the start of the invocation
Elapsed == now - startTime

\* the handler holds a snapshot
HasSnapshot == data # Undefined

\* C1: in every poll cycle completion is declared (the notification is built
\* and polling stops) iff every song of the cycle's snapshot has a song path
\* or an error code; while a song is unfinished and the budget has not
\* elapsed the handler keeps polling and has posted no callback.
C1_CompletionIffAllFinished ==
  HasSnapshot =>
    /\ (built = 1 /\ pc \notin {"checkSongs", "sleep"})
         <=> (\A k \in 1..Len(data.songs) : SongDone(data.songs[k]))
    /\ ( /\ \E k \in 1..Len(data.songs) : ~SongDone(data.songs[k])
         /\ Elapsed < MAX_RETRY_TIME )
         => (pc = "sleep" /\ callbacks = <<>>)

C3_UpstreamFailure ==
  (\/ failures >= CheckSongsAttempts(variant)
   \/ caught \in {"Unreachable code", "Failed to fetch songs after 5 attempts"})
    => /\ pc = "done"
       /\ response = InternalError
       /\ callbacks = <<>>
       /\ built = 0

\* the fifth attempt of a later poll cycle of part_000 has failed
C3_Witness ==
  /\ variant = "part_000"
  /\ failures = 5
  /\ polls > 1
  /\ response = InternalError

\* C4 as stated: when every song of the final snapshot has a non-null
\* error_code, the notification has code 501, msg equal to the first song's
\* error_detail and detail equal to the first song's error_code.
C4_Original ==
  (built = 1 /\ \A k \in 1..Len(data.songs) : data.songs[k].error_code # NULL)
    => /\ callbackData.code = 501
       /\ callbackData.msg = data.songs[1].error_detail
       /\ callbackData.detail = data.songs[1].error_code

\* C4 amended: when every song of the final snapshot has a non-null
\* error_code, the notification has code 501; msg is the first song's
\* error_detail and detail the first song's error_code, each replaced by
\* "All songs generation failed" when it is null or empty.
C4_Amended ==
  (built = 1 /\ \A k \in 1..Len(data.songs) : data.songs[k].error_code # NULL)
    => /\ callbackData.code = 501
       /\ callbackData.msg =
            IF Present(data.songs[1].error_detail)
            THEN data.songs[1].error_detail ELSE "All songs generation failed"
       /\ callbackData.detail =
            IF Present(data.songs[1].error_code)
            THEN data.songs[1].error_code ELSE "All songs generation failed"

\* a notification for two failed songs with different error fields
C4_Witness ==
  /\ built = 1
  /\ Len(data.songs) = 2
  /\ data.songs[1].error_code = "E1"
  /\ data.songs[2].error_code = "E2"
  /\ callbackData.code = 501

\* C5: when a notification is built and at least one song of the final
\* snapshot has a null error_code, the notification has code 200 and the
\* message "Generated successfully.", even if other songs failed.
C5_PartialFailureIsSuccess ==
  (built = 1 /\ \E k \in 1..Len(data.songs) : data.songs[k].error_code = NULL)
    => /\ callbackData.code = 200
       /\ callbackData.msg = "Generated successfully."
       /\ "detail" \notin DOMAIN callbackData

\* a notification for a batch of one failed and one succeeded song
C5_Witness ==
  /\ built = 1
  /\ Len(data.songs) = 2
  /\ data.songs[1].error_code = "E1"
  /\ data.songs[2].error_code = NULL
  /\ data.songs[2].song_path = "p"

\* C6: the notification is built at most once, every callback POST carries
\* it to callbackUrl, no attempt follows an attempt answered 2xx, and there
\* are at most 3 attempts.
C6_SingleNotification ==
  /\ built <= 1
  /\ callbacks # <<>> => built = 1
  /\ \A k \in 1..Len(callbacks) :
       /\ callbacks[k].body = callbackData
       /\ callbacks[k].url = body.callbackUrl
       /\ k < Len(callbacks) => callbacks[k].result = "failed"
  /\ Len(callbacks) <= 3

\* the third attempt is answered 2xx
C6_Witness == Len(callbacks) = 3 /\ callbacks[3].result = "ok"

\* C7: in route.ts exhausting the callback retries is not an error: the
\* response is {status: "success"} with callbackSuccess true iff one of the
\* at most 3 attempts was answered 2xx.
C7_CallbackNeverThrows ==
  variant = "route" =>
    /\ caught # "Callback failed"
    /\ Len(callbacks) <= 3
    /\ (pc = "done" /\ callbacks # <<>>) =>
         /\ caught = "none"
         /\ response.http = 200
         /\ response.status = "success"
         /\ response.callbackSuccess =
              (\E k \in 1..Len(callbacks) : callbacks[k].result = "ok")

\* all three attempts of route.ts have failed
C7_Witness ==
  /\ variant = "route"
  /\ pc = "done"
  /\ Len(callbacks) = 3
  /\ callbacks[3].result = "failed"
  /\ response.http = 200
  /\ response.callbackSuccess = FALSE

\* C8: in route.ts the delay slept after the i-th failed attempt is
\* 10s * 2^(i-1), and when all 3 attempts fail the delays 10s, 20s and 40s
\* have been slept.
C8_BackoffDelays ==
  variant = "route" =>
    /\ \A i \in 1..Len(slept) : slept[i] = 10000 * (2 ^ (i - 1))
    /\ (pc = "done" /\ Len(callbacks) = 3 /\ callbacks[3].result = "failed")
         => slept = <<10000, 20000, 40000>>

\* C9: in part_000 sendCallback makes at most 3 attempts, sleeps 2 seconds
\* between consecutive attempts and not after the last, and when all 3 fail
\* the invocation ends with the internal-error response.
C9_SendCallbackRethrows ==
  variant = "part_000" =>
    /\ Len(callbacks) <= 3
    /\ \A i \in 1..Len(slept) : slept[i] = 2000
    /\ callbacks # <<>> => Len(slept) = Len(callbacks) - 1
    /\ (Len(callbacks) = 3 /\ callbacks[3].result = "failed")
         => /\ pc = "done"
            /\ response = InternalError
            /\ caught = "Callback failed"
    /\ caught = "Callback failed"
         => (Len(callbacks) = 3 /\ callbacks[3].result = "failed")

\* all three attempts of part_000 have failed
C9_Witness ==
  /\ variant = "part_000"
  /\ Len(callbacks) = 3
  /\ callbacks[3].result = "failed"
  /\ slept = <<2000, 2000>>
  /\ response = InternalError

\* the three terminal outcomes of the completion loop
Outcomes ==
  { TimeoutResponse }
    \cup { SuccessResponse(v, f, c) : v \in Variants, f \in BOOLEAN, c \in BOOLEAN }

\* C10 as stated: an invocation that has stopped has one of the outcomes
\* SUCCESS, ALL_FAILED or TIMEOUT.
C10_Original == pc = "done" => response \in Outcomes

\* C10 amended: if every outbound call completes and time advances, the
\* invocation eventually stops in one of SUCCESS, ALL_FAILED, TIMEOUT or the
\* internal-error response, and exactly one response is returned.
C10_Amended ==
  /\ <>(pc = "done")
  /\ [](pc = "done" => /\ responses = 1
                       /\ response \in Outcomes \cup {InternalError})
  /\ [](pc # "done" => responses = 0 /\ response = NoResponse)

\* the first poll outlasts the budget and the invocation times out
C10_Witness ==
  /\ pc = "done"
  /\ responses = 1
  /\ response = TimeoutResponse
  /\ polls = 1

\* the first poll has returned at least one song and every song has a song
\* path and no error code
FirstPollAllOk ==
  /\ polls = 1
  /\ HasSnapshot
  /\ Len(data.songs) >= 1
  /\ \A k \in 1..Len(data.songs) :
       Present(data.songs[k].song_path) /\ data.songs[k].error_code = NULL

\* what C11 says of the poll cycles and of the notification
C11_OnePollOneNotification ==
  /\ pc \in {"callback", "backoff", "done"}
  /\ built = 1
  /\ callbacks # <<>>
  /\ \A k \in 1..Len(callbacks) : callbacks[k].body = callbackData
  /\ callbackData.code = 200
  /\ Len(callbackData.data.data) = Len(data.songs)
  /\ \A k \in 1..Len(data.songs) :
       /\ callbackData.data.data[k].id = data.songs[k].id
       /\ callbackData.data.data[k].status = "200"

\* C11 as stated: if the first poll returns every song finished with a song
\* path and no error code, the invocation performs one poll cycle and no
\* inter-poll sleep, posts one notification of code 200 with one entry of
\* status "200" per song in upstream order, and returns
\* {status: "success", message: "Process completed"}.
C11_Original ==
  FirstPollAllOk =>
    /\ C11_OnePollOneNotification
    /\ pc = "done" =>
         /\ response.http = 200
         /\ response.status = "success"
         /\ response.message = "Process completed"

\* C11 amended: the same, except that in part_000 the response is the
\* internal error (HTTP 500) when all 3 callback attempts have failed.
C11_Amended ==
  FirstPollAllOk =>
    /\ C11_OnePollOneNotification
    /\ pc = "done" =>
         IF /\ variant = "part_000"
            /\ Len(callbacks) = 3
            /\ callbacks[3].result = "failed"
         THEN response = InternalError
         ELSE /\ response.http = 200
              /\ response.status = "success"
              /\ response.message = "Process completed"

\* two songs finished on the first poll and the response returned
C11_Witness ==
  /\ FirstPollAllOk
  /\ Len(data.songs) = 2
  /\ pc = "done"
  /\ response.http = 200
  /\ Len(callbacks) = 1

\* C13: in part_000 a failed upstream attempt is followed at once by the
\* next attempt of the same poll cycle, there are at most 5 attempts per
\* cycle, an answered attempt ends the call of checkSongs, and the fetch
\* failure is raised only after 5 consecutive failed attempts.
C13_CheckSongsRetries ==
  /\ [](variant = "part_000" =>
          /\ failures <= 5
          /\ pc = "checkSongs" => (failures < 5 /\ checkI = failures)
          /\ failures = 5 <=> caught = "Failed to fetch songs after 5 attempts"
          /\ caught # "Unreachable code"
          /\ failures \in 1..4 => (pc = "checkSongs" \/ caught = "SyntaxError"))
  /\ [][(variant = "part_000" /\ failures' = failures + 1 /\ failures' < 5)
          => /\ pc' = "checkSongs"
             /\ polls' = polls
             /\ slept' = slept
             /\ delay' = delay
             /\ response' = NoResponse]_vars
  /\ [][(variant = "part_000" /\ pc = "checkSongs" /\ HasSnapshot')
          => (pc' # "checkSongs" /\ failures' = 0 /\ checkI' = 0)]_vars

\* the fifth attempt of a later poll cycle of part_000 is in flight
C13_Witness ==
  /\ variant = "part_000"
  /\ pc = "checkSongs"
  /\ failures = 4
  /\ polls > 1

C15_PollingBudget ==
  /\ [](pc = "sleep" =>
          /\ delay = 10000
          /\ HasSnapshot
          /\ \E k \in 1..Len(data.songs) : ~SongDone(data.songs[k])
          /\ Elapsed < 600000)
  /\ [](polls <= 60)
  /\ [][polls' # polls =>
          /\ polls' = polls + 1
          /\ now' - startTime' < 600000
          /\ polls >= 1 => (pc = "sleep" /\ now' - pollStart >= 10000)]_vars

\* the sleep after the sixtieth poll cycle
C15_Witness == polls = 60 /\ pc = "sleep"

\* the per-song entries of the notification
Entries == callbackData.data.data

\* C16: in every built notification there is one entry per song of the
\* final snapshot, in the same order, with status "501" if the song's error
\* code is present (neither null nor empty) and "200" otherwise.
C16_EntryStatus ==
  built = 1 =>
    /\ Len(Entries) = Len(data.songs)
    /\ \A k \in 1..Len(data.songs) :
         /\ Entries[k].id = data.songs[k].id
         /\ Entries[k].status =
              IF Present(data.songs[k].error_code) THEN "501" ELSE "200"

\* a notification for a failed song followed by a song with an empty code
C16_Witness ==
  /\ built = 1
  /\ Len(data.songs) = 2
  /\ data.songs[1].error_code = "E1"
  /\ data.songs[2].error_code = ""
  /\ Entries[1].status = "501"
  /\ Entries[2].status = "200"

\* C17: a notification of code 501 has status "501" in every entry.
C17_BatchAndEntriesAgree ==
  (built = 1 /\ callbackData.code = 501)
    => \A k \in 1..Len(Entries) : Entries[k].status = "501"

\* C18: a success response is returned only after callback delivery has
\* ended; its message is "All songs failed" iff the notification has code
\* 501 and "Process completed" iff it has code 200.
C18_ResponseMatchesNotification ==
  (response.http = 200 /\ response.status = "success") =>
    /\ pc = "done"
    /\ built = 1
    /\ callbacks # <<>>
    /\ \A k \in 1..Len(callbacks) : callbacks[k].result # "pending"
    /\ \/ callbacks[Len(callbacks)].result = "ok"
       \/ variant = "route" /\ Len(callbacks) = 3
    /\ response.message = "All songs failed" <=> callbackData.code = 501
    /\ response.message = "Process completed" <=> callbackData.code = 200

\* a success response after a 501 notification was delivered
C18_Witness ==
  /\ response.http = 200
  /\ response.status = "success"
  /\ response.message = "All songs failed"
  /\ callbackData.code = 501
  /\ callbacks[Len(callbacks)].result = "ok"

\* C19: a snapshot of zero song records ends the invocation with the
\* internal-error response: no notification is built, no callback is posted
\* and status "success" is not returned.
C19_EmptySnapshot ==
  /\ (HasSnapshot /\ Len(data.songs) = 0) =>
       /\ pc = "done"
       /\ response = InternalError
       /\ caught = "TypeError"
       /\ callbacks = <<>>
       /\ built = 0
  /\ caught = "TypeError" => (HasSnapshot /\ Len(data.songs) = 0)

\* an empty snapshot in a later poll cycle
C19_Witness ==
  /\ HasSnapshot
  /\ Len(data.songs) = 0
  /\ polls > 1
  /\ response = InternalError
====
